---------------------------- MODULE Spec2Model ----------------------------
(***************************************************************************)
(* A model of the cy-utils helper library (src/src/other/index.ts and the  *)
(* later revision of the same file, src/unnamed/part_000): debounce,       *)
(* throttle, copyTxt, deepClone, arrayToTree, formatBytes and              *)
(* getSelectedItems.  Each helper is independent, so each gets its own     *)
(* specification over the shared variables; the variables of the helpers a *)
(* specification does not exercise stay at their idle values.              *)
(***************************************************************************)
EXTENDS Integers, Sequences, FiniteSets, TLC

VARIABLES
    now,        \* the host clock, in ms
    timers,     \* the host's armed timers: handle -> [due, cb]
    nextId,     \* the handle the host's next setTimeout returns
    dTimer,     \* debounce: the closure's `timer`
    dInvoked,   \* debounce: the wrapper invocations made so far
    dFnCalls,   \* debounce: the applications of fn made so far
    tTimer,     \* throttle: the closure's `timer`
    tStack,     \* throttle: the applications of fn still executing, innermost last
    tInvoked,   \* throttle: the wrapper invocations made so far
    tFnCalls,   \* throttle: the applications of fn made so far
    tArmed,     \* throttle: per application of fn, the cooldown timer armed after it
    tExpired,   \* throttle: the cooldown timers whose callback has run
    cCalls,     \* copyTxt: per call, its text, its host, its clipboard write and its promise
    cClipboard, \* copyTxt: the text on the system clipboard
    heap,       \* deepClone: the objects allocated so far, an address being an index
    hPhase,     \* deepClone: "build" (the caller builds a value), "cloned", "mutated"
    hRoot,      \* deepClone: the value deepClone was given
    hClone,     \* deepClone: the value deepClone returned
    hBefore,    \* deepClone: the heap as it was when deepClone was called
    aArr,       \* arrayToTree: the list given
    aOut,       \* arrayToTree: what the call produced
    fIn,        \* formatBytes: the arguments given
    fOut,       \* formatBytes: what the call produced
    gIn,        \* getSelectedItems: the arguments given
    gOut        \* getSelectedItems: what the call produced

hostVars == <<now, timers, nextId>>
debounceVars == <<dTimer, dInvoked, dFnCalls>>
throttleVars == <<tTimer, tStack, tInvoked, tFnCalls, tArmed, tExpired>>
copyVars == <<cCalls, cClipboard>>
cloneVars == <<heap, hPhase, hRoot, hClone, hBefore>>
treeVars == <<aArr, aOut>>
formatVars == <<fIn, fOut>>
selectVars == <<gIn, gOut>>
pureVars == <<cloneVars, treeVars, formatVars, selectVars>>
timerVars == <<hostVars, debounceVars, throttleVars, copyVars>>

vars == <<hostVars, debounceVars, throttleVars, copyVars, pureVars>>

(***************************************************************************)
(* Bounds of the model.                                                    *)
(***************************************************************************)
Wait == 2           \* the `wait` argument given to debounce / throttle
MaxCalls == 3       \* wrapper invocations made in one behaviour
MaxTime == 2        \* the clock stops here once no armed timer is still to come
MaxDepth == 2       \* applications of fn nested inside one another (fn re-entering the wrapper)
MaxCopies == 2      \* calls of copyTxt made in one behaviour
MaxObjects == 2     \* arrays and mappings the caller builds before it calls deepClone
MaxCells == 2       \* elements and properties the caller puts into them, in all
MaxList == 3        \* records in the list given to arrayToTree
MaxId == 3          \* id and pid values run over 0..MaxId
MaxBytes == 1540    \* formatBytes is given every whole number of bytes up to here
MaxDecimals == 2    \* and every whole number of decimals from -1 up to here
MaxData == 2        \* records in the data list given to getSelectedItems
MaxValues == 2      \* entries of an options.value that is an array

\* The ways a caller invokes a wrapper: a receiver and an arguments object.
Invocations == {[context |-> "this1", args |-> "args1"], [context |-> "this2", args |-> "args2"]}

NULL == 0           \* `null`: the only falsy value a timer variable holds

(***************************************************************************)
(* The host's timers.  A handle is a positive number (a truthy value);     *)
(* a callback runs at or after its due time, earliest due first and, among *)
(* equal due times, in the order of arming.                                *)
(***************************************************************************)
Truthy(v) == v # NULL

setTimeout(ts, h, cb, ms) ==
    [x \in DOMAIN ts \cup {h} |-> IF x = h THEN [due |-> now + ms, cb |-> cb] ELSE ts[x]]

clearTimeout(ts, h) == [x \in DOMAIN ts \ {h} |-> ts[x]]

NextDue(ts) ==
    {h \in DOMAIN ts :
        /\ ts[h].due <= now
        /\ \A g \in DOMAIN ts : ts[g].due > ts[h].due \/ (ts[g].due = ts[h].due /\ g >= h)}

HostInit == now = 0 /\ timers = <<>> /\ nextId = 1

\* let timer = null, and nothing invoked yet.
DebounceInit == dTimer = NULL /\ dInvoked = <<>> /\ dFnCalls = <<>>

ThrottleInit ==
    /\ tTimer = NULL /\ tStack = <<>> /\ tInvoked = <<>>
    /\ tFnCalls = <<>> /\ tArmed = <<>> /\ tExpired = {}

CopyInit == cCalls = <<>> /\ cClipboard = "empty"

(***************************************************************************)
(* JavaScript values on a heap.  A value is a primitive, null, or a        *)
(* reference to a heap object; a heap object is an array (elems), a plain  *)
(* mapping (fields) or an exotic object: a function, a Date, a RegExp or   *)
(* an instance of a class, with its enumerable properties in fields.       *)
(***************************************************************************)
Prim(n) == [t |-> "prim", v |-> n]
Null == [t |-> "null", v |-> 0]
Ref(a) == [t |-> "ref", v |-> a]

Obj(kind, elems, fields) == [kind |-> kind, elems |-> elems, fields |-> fields]
NoFields == [k \in {} |-> Null]
Keys == <<"a", "b">>        \* the property names, in for-in order

\* The exotic objects of the host: a function, a Date, a RegExp, and an instance
\* of a class with one enumerable property.
Exotics ==
    << Obj("function", <<>>, NoFields), Obj("date", <<>>, NoFields),
       Obj("regexp", <<>>, NoFields), Obj("instance", <<>>, [k \in {"a"} |-> Prim(1)]) >>

NotCalled == [status |-> "not called"]

CloneInit ==
    /\ heap = Exotics /\ hPhase = "build"
    /\ hRoot = Null /\ hClone = Null /\ hBefore = <<>>

TreeIdle == aArr = <<>> /\ aOut = NotCalled
FormatIdle == fIn = [bytes |-> 0, given |-> FALSE, decimal |-> 0] /\ fOut = NotCalled
SelectIdle == gIn = [data |-> <<>>, value |-> [t |-> "object"], flag |-> TRUE] /\ gOut = NotCalled

TimersIdle == HostInit /\ DebounceInit /\ ThrottleInit /\ CopyInit

Tick ==
    /\ now < MaxTime \/ \E h \in DOMAIN timers : timers[h].due > now
    /\ now' = now + 1

(***************************************************************************)
(* throttle(fn, wait).  fn is applied before the cooldown timer is armed,  *)
(* so the wrapper's body is two steps with fn's execution between them; fn *)
(* may invoke the wrapper again while it executes.  fn returns normally.   *)
(***************************************************************************)
\* A throttle that applies fn whether or not a cooldown is pending.
ThrottleOpenAlways == TRUE

\* if (!timer)
ThrottleOpen == ~Truthy(tTimer)

\* The wrapper's body up to and including fn.apply(this, args).
ThrottleWrapper(c, a) ==
    /\ Len(tInvoked) < MaxCalls
    /\ tInvoked' = Append(tInvoked, [context |-> c, args |-> a, at |-> now,
                                     cooling |-> Truthy(tTimer), depth |-> Len(tStack)])
    /\ IF ThrottleOpen
       THEN /\ tFnCalls' = Append(tFnCalls,
                  [context |-> c, args |-> a, at |-> now, inv |-> Len(tInvoked) + 1,
                   prevExpired |-> \/ tFnCalls = <<>>
                                   \/ tArmed[Len(tFnCalls)] \in tExpired])
            /\ tArmed' = Append(tArmed, NULL)
            /\ tStack' = Append(tStack, Len(tFnCalls) + 1)
       ELSE UNCHANGED <<tFnCalls, tArmed, tStack>>
    /\ UNCHANGED <<hostVars, tTimer, tExpired, debounceVars, copyVars, pureVars>>

\* The function throttle returns, invoked by a caller.
ThrottleCall(c, a) == tStack = <<>> /\ ThrottleWrapper(c, a)

\* The function throttle returns, invoked by fn while fn executes.
ThrottleReenter(c, a) ==
    /\ tStack # <<>>
    /\ Len(tStack) < MaxDepth
    /\ ThrottleWrapper(c, a)

\* fn returns: timer = setTimeout(() => {...}, wait)
ThrottleReturn ==
    /\ tStack # <<>>
    /\ timers' = setTimeout(timers, nextId, [kind |-> "throttle"], Wait)
    /\ tTimer' = nextId
    /\ nextId' = nextId + 1
    /\ tArmed' = [tArmed EXCEPT ![tStack[Len(tStack)]] = nextId]
    /\ tStack' = SubSeq(tStack, 1, Len(tStack) - 1)
    /\ UNCHANGED <<now, tInvoked, tFnCalls, tExpired, debounceVars, copyVars, pureVars>>

\* The cooldown callback: timer && clearTimeout(timer); timer = null
ThrottleFire(h) ==
    /\ tStack = <<>>
    /\ h \in NextDue(timers)
    /\ timers[h].cb.kind = "throttle"
    /\ timers' = clearTimeout(IF Truthy(tTimer) THEN clearTimeout(timers, tTimer) ELSE timers, h)
    /\ tTimer' = NULL
    /\ tExpired' = tExpired \cup {h}
    /\ UNCHANGED <<now, nextId, tStack, tInvoked, tFnCalls, tArmed, debounceVars, copyVars, pureVars>>

ThrottleTick == Tick /\ UNCHANGED <<timers, nextId, debounceVars, throttleVars, copyVars, pureVars>>

ThrottleNext ==
    \/ \E i \in Invocations : ThrottleCall(i.context, i.args)
    \/ \E i \in Invocations : ThrottleReenter(i.context, i.args)
    \/ ThrottleReturn
    \/ \E h \in DOMAIN timers : ThrottleFire(h)
    \/ ThrottleTick

ThrottleStart == TimersIdle /\ CloneInit /\ TreeIdle /\ FormatIdle /\ SelectIdle

ThrottleSpec == ThrottleStart /\ [][ThrottleNext]_vars

(***************************************************************************)
(* debounce(fn, wait)                                                      *)
(***************************************************************************)
\* A debounce that forgets to cancel the pending timer.
DebounceCancelledNever == timers

\* timer && clearTimeout(timer)
DebounceCancelled == IF Truthy(dTimer) THEN clearTimeout(timers, dTimer) ELSE timers

\* timer = setTimeout(() => fn.apply(context, args), wait)
DebounceArmed(c, a) ==
    setTimeout(DebounceCancelled, nextId, [kind |-> "debounce", context |-> c, args |-> a], Wait)

\* One invocation of the function debounce returns.
DebounceCall(c, a) ==
    /\ Len(dInvoked) < MaxCalls
    /\ timers' = DebounceArmed(c, a)
    /\ dTimer' = nextId
    /\ nextId' = nextId + 1
    /\ dInvoked' = Append(dInvoked, [context |-> c, args |-> a, at |-> now])
    /\ UNCHANGED <<now, dFnCalls, throttleVars, copyVars, pureVars>>

\* The host runs the armed callback: fn.apply(context, args).
DebounceFire(h) ==
    /\ h \in NextDue(timers)
    /\ timers[h].cb.kind = "debounce"
    /\ dFnCalls' = Append(dFnCalls, [context |-> timers[h].cb.context,
                                      args |-> timers[h].cb.args, at |-> now,
                                      inv |-> Len(dInvoked)])
    /\ timers' = clearTimeout(timers, h)
    /\ UNCHANGED <<now, nextId, dTimer, dInvoked, throttleVars, copyVars, pureVars>>

DebounceTick == Tick /\ UNCHANGED <<timers, nextId, debounceVars, throttleVars, copyVars, pureVars>>

DebounceFires == \E h \in DOMAIN timers : DebounceFire(h)

DebounceNext ==
    \/ \E i \in Invocations : DebounceCall(i.context, i.args)
    \/ DebounceFires
    \/ DebounceTick

DebounceStart == TimersIdle /\ CloneInit /\ TreeIdle /\ FormatIdle /\ SelectIdle

\* The host's clock advances and a due callback is eventually run.
DebounceSpec ==
    DebounceStart /\ [][DebounceNext]_vars /\ WF_vars(DebounceFires) /\ WF_vars(DebounceTick)

(***************************************************************************)
(* copyTxt(text).  The host decides how navigator.clipboard.writeText      *)
(* behaves (the capability is missing, so that reading it throws; the call *)
(* throws; or it returns a promise that later fulfils or rejects) and how  *)
(* the textarea fallback behaves (execCommand reports success, reports     *)
(* failure, or one of the DOM calls throws).                               *)
(***************************************************************************)
Texts == {"t1", "t2", "t3"}
ClipboardHosts == {"missing", "throws", "fulfils", "rejects"}
DomHosts == {"copies", "refuses", "throws"}

\* The values a promise settles with: the text (a string) or false.
Str(text) == [t |-> "string", v |-> text]
False == [t |-> "boolean", v |-> "false"]

Pending == [state |-> "pending", value |-> [t |-> "undefined", v |-> "undefined"]]
resolve(v) == [state |-> "fulfilled", value |-> v]
reject(v) == [state |-> "rejected", value |-> v]

\* The inner try block: the textarea fallback.
CopyFallback(text, dom) ==
    CASE dom = "copies" -> resolve(Str(text))   \* if (succ) return resolve(text)
      [] dom = "refuses" -> reject(False)       \* reject(false)
      [] dom = "throws" -> reject(False)        \* catch (error) { reject(false) }

\* The promise's executor: the outer try block and its catch.
CopyExecutor(text, clip, dom) ==
    IF clip \in {"missing", "throws"}
    THEN [text |-> text, clip |-> clip, dom |-> dom, write |-> "none",
          promise |-> CopyFallback(text, dom)]
    ELSE [text |-> text, clip |-> clip, dom |-> dom, write |-> "pending",
          promise |-> Pending]

CopyTxtCall(text, clip, dom) ==
    /\ Len(cCalls) < MaxCopies
    /\ cCalls' = Append(cCalls, CopyExecutor(text, clip, dom))
    /\ cClipboard' = IF clip \in {"missing", "throws"} /\ dom = "copies" THEN text ELSE cClipboard
    /\ UNCHANGED <<hostVars, debounceVars, throttleVars, pureVars>>

\* What the settled writeText promise does to the promise copyTxt returned:
\* .then(() => resolve(text)) has a fulfilment handler and no rejection handler.
CopySettled(call, outcome) ==
    IF outcome = "fulfils"
    THEN [call EXCEPT !.write = "fulfilled", !.promise = resolve(Str(call.text))]
    ELSE [call EXCEPT !.write = "rejected"]

\* The host settles the promise writeText returned.
ClipboardSettle(i) ==
    /\ cCalls[i].write = "pending"
    /\ cCalls' = [cCalls EXCEPT ![i] = CopySettled(cCalls[i], cCalls[i].clip)]
    /\ cClipboard' = IF cCalls[i].clip = "fulfils" THEN cCalls[i].text ELSE cClipboard
    /\ UNCHANGED <<hostVars, debounceVars, throttleVars, pureVars>>

CopyNext ==
    \/ \E text \in Texts, clip \in ClipboardHosts, dom \in DomHosts : CopyTxtCall(text, clip, dom)
    \/ \E i \in 1..Len(cCalls) : ClipboardSettle(i)

CopyStart == TimersIdle /\ CloneInit /\ TreeIdle /\ FormatIdle /\ SelectIdle

CopySpec == CopyStart /\ [][CopyNext]_vars

(***************************************************************************)
(* deepClone(obj)                                                          *)
(***************************************************************************)
IsContainer(o) == o.kind \in {"array", "object"}

\* The values an element or a property of heap object o holds, in order.
CellsOf(o) ==
    o.elems \o [i \in 1..Len(SelectSeq(Keys, LAMBDA k : k \in DOMAIN o.fields)) |->
                    o.fields[SelectSeq(Keys, LAMBDA k : k \in DOMAIN o.fields)[i]]]

\* A typeof that reports every heap object, functions too, as 'object'.
typeofAllObjects(h, v) == IF v.t = "prim" THEN "number" ELSE "object"

\* typeof obj
typeof(h, v) ==
    CASE v.t = "prim" -> "number"
      [] v.t = "null" -> "object"
      [] v.t = "ref" -> IF h[v.v].kind = "function" THEN "function" ELSE "object"

RECURSIVE deepClone(_, _)
RECURSIVE CloneElems(_, _, _, _)
RECURSIVE CloneFields(_, _, _, _)

\* A clone that copies the container and keeps its elements by reference.
CloneItemShallow(h, v) == [heap |-> h, val |-> v]

\* deepClone(item), deepClone(obj[k]): the recursive calls
CloneItem(h, v) == deepClone(h, v)

\* obj.forEach((item, index) => (newArr[index] = deepClone(item)))
CloneElems(h, elems, i, dst) ==
    IF i > Len(elems)
    THEN [heap |-> h, val |-> Ref(dst)]
    ELSE LET r == CloneItem(h, elems[i])
         IN CloneElems([r.heap EXCEPT ![dst].elems = Append(@, r.val)], elems, i + 1, dst)

\* for (let k in obj) newObj[k] = deepClone(obj[k])
CloneFields(h, fields, i, dst) ==
    IF i > Len(Keys)
    THEN [heap |-> h, val |-> Ref(dst)]
    ELSE IF Keys[i] \notin DOMAIN fields
         THEN CloneFields(h, fields, i + 1, dst)
         ELSE LET r == CloneItem(h, fields[Keys[i]])
                  old == r.heap[dst].fields
                  new == [k \in DOMAIN old \cup {Keys[i]} |->
                             IF k = Keys[i] THEN r.val ELSE old[k]]
              IN CloneFields([r.heap EXCEPT ![dst].fields = new], fields, i + 1, dst)

\* The result is the heap after the call and the value returned.
deepClone(h, v) ==
    IF typeof(h, v) # "object" \/ v = Null
    THEN [heap |-> h, val |-> v]
    ELSE IF h[v.v].kind = "array"      \* Array.isArray(obj)
         THEN CloneElems(Append(h, Obj("array", <<>>, NoFields)), h[v.v].elems, 1, Len(h) + 1)
         ELSE CloneFields(Append(h, Obj("object", <<>>, NoFields)), h[v.v].fields, 1, Len(h) + 1)

\* The values a caller has at hand: primitives, null, and the objects on the heap.
ValuesAtHand == {Prim(1), Null} \cup {Ref(a) : a \in 1..Len(heap)}

RECURSIVE CellCount(_, _)
CellCount(h, a) ==
    IF a > Len(h) THEN 0
    ELSE (IF IsContainer(h[a]) THEN Len(CellsOf(h[a])) ELSE 0) + CellCount(h, a + 1)

\* The caller builds the value it will clone, bottom-up: a new empty array or
\* mapping, then elements or properties put into the newest one.
NewContainer(kind) ==
    /\ hPhase = "build"
    /\ Len(heap) < Len(Exotics) + MaxObjects
    /\ heap' = Append(heap, Obj(kind, <<>>, NoFields))
    /\ UNCHANGED <<hPhase, hRoot, hClone, hBefore>>
    /\ UNCHANGED <<timerVars, treeVars, formatVars, selectVars>>

PushElement(v) ==
    /\ hPhase = "build"
    /\ heap[Len(heap)].kind = "array"
    /\ CellCount(heap, 1) < MaxCells
    /\ v # Ref(Len(heap))
    /\ heap' = [heap EXCEPT ![Len(heap)].elems = Append(@, v)]
    /\ UNCHANGED <<hPhase, hRoot, hClone, hBefore>>
    /\ UNCHANGED <<timerVars, treeVars, formatVars, selectVars>>

SetProperty(k, v) ==
    /\ hPhase = "build"
    /\ heap[Len(heap)].kind = "object"
    /\ CellCount(heap, 1) < MaxCells
    /\ k \notin DOMAIN heap[Len(heap)].fields
    /\ v # Ref(Len(heap))
    /\ heap' = [heap EXCEPT ![Len(heap)].fields =
                   [j \in DOMAIN @ \cup {k} |-> IF j = k THEN v ELSE @[j]]]
    /\ UNCHANGED <<hPhase, hRoot, hClone, hBefore>>
    /\ UNCHANGED <<timerVars, treeVars, formatVars, selectVars>>

\* The value the caller clones: the structure it built (its newest container),
\* or, having built none, any bare value.
CloneArguments ==
    IF Len(heap) = Len(Exotics) THEN ValuesAtHand ELSE {Ref(Len(heap))}

DeepCloneCall(v) ==
    /\ hPhase = "build"
    /\ LET r == deepClone(heap, v)
       IN /\ heap' = r.heap
          /\ hClone' = r.val
    /\ hRoot' = v
    /\ hBefore' = heap
    /\ hPhase' = "cloned"
    /\ UNCHANGED <<timerVars, treeVars, formatVars, selectVars>>

RECURSIVE Reach(_, _)
\* The arrays and mappings reachable from value v.
Reach(h, v) ==
    IF v.t # "ref" THEN {}
    ELSE IF ~IsContainer(h[v.v]) THEN {}
    ELSE {v.v} \cup UNION {Reach(h, CellsOf(h[v.v])[i]) : i \in 1..Len(CellsOf(h[v.v]))}

\* The caller mutates an array or a mapping inside the clone.
MutateClone(a) ==
    /\ hPhase = "cloned"
    /\ a \in Reach(heap, hClone)
    /\ heap' = IF heap[a].kind = "array"
               THEN [heap EXCEPT ![a].elems = Append(@, Prim(2))]
               ELSE [heap EXCEPT ![a].fields =
                        [j \in DOMAIN @ \cup {"a"} |-> Prim(2)]]
    /\ hPhase' = "mutated"
    /\ UNCHANGED <<hRoot, hClone, hBefore>>
    /\ UNCHANGED <<timerVars, treeVars, formatVars, selectVars>>

CloneNext ==
    \/ \E kind \in {"array", "object"} : NewContainer(kind)
    \/ \E v \in ValuesAtHand : PushElement(v)
    \/ \E k \in {Keys[i] : i \in 1..Len(Keys)}, v \in ValuesAtHand : SetProperty(k, v)
    \/ \E v \in CloneArguments : DeepCloneCall(v)
    \/ \E a \in 1..Len(heap) : MutateClone(a)

CloneStart == TimersIdle /\ CloneInit /\ TreeIdle /\ FormatIdle /\ SelectIdle

CloneSpec == CloneStart /\ [][CloneNext]_vars

(***************************************************************************)
(* arrayToTree(arr, id = 'id', pid = 'pid', children = 'children').  The   *)
(* records are flat: an id and a pid, both numbers.  A node of the result  *)
(* is named by its position in data, the cloned list.                      *)
(***************************************************************************)
Records == [id : 0..MaxId, pid : 0..MaxId]
Lists == UNION {[1..n -> Records] : n \in 0..MaxList}

\* deepClone(arr), for a list of flat records: a new list of new records.
CloneRecords(arr) == [i \in 1..Len(arr) |-> [k \in DOMAIN arr[i] |-> arr[i][k]]]

\* idMap.get(key) after data.forEach(item => idMap.set(item[id], item)): the
\* last record set under the key, 0 standing for undefined.
IdMapGet(data, key) ==
    IF \E i \in 1..Len(data) : data[i].id = key
    THEN CHOOSE i \in 1..Len(data) :
            /\ data[i].id = key
            /\ \A j \in 1..Len(data) : data[j].id = key => j <= i
    ELSE 0

\* An attach that puts the newest child first.
TreeAttachFront(kids, parent, j) == [kids EXCEPT ![parent] = <<j>> \o @]

\* if (!parent[children]) parent[children] = []; parent[children].push(item)
TreeAttach(kids, parent, j) == [kids EXCEPT ![parent] = Append(@, j)]

RECURSIVE TreeLoop(_, _, _)
\* The second data.forEach, from item i on.
TreeLoop(data, i, acc) ==
    IF i > Len(data) THEN acc
    ELSE IF ~Truthy(data[i].pid)                      \* if (!item[pid]) return tree.push(item)
    THEN TreeLoop(data, i + 1, [acc EXCEPT !.tree = Append(@, i)])
    ELSE LET parent == IdMapGet(data, data[i].pid)
         IN IF parent = 0                             \* parent[children] of undefined throws
            THEN [status |-> "fault", tree |-> <<>>, children |-> <<>>]
            ELSE TreeLoop(data, i + 1,
                          [acc EXCEPT !.children = TreeAttach(@, parent, i)])

arrayToTree(arr) ==
    LET data == CloneRecords(arr)
    IN TreeLoop(data, 1, [status |-> "returned", tree |-> <<>>,
                          children |-> [i \in 1..Len(data) |-> <<>>]])

ArrayToTreeCall ==
    /\ aOut = NotCalled
    /\ aOut' = arrayToTree(aArr)
    /\ UNCHANGED <<aArr, timerVars, cloneVars, formatVars, selectVars>>

TreeNext == ArrayToTreeCall

TreeStart ==
    /\ TimersIdle /\ CloneInit /\ FormatIdle /\ SelectIdle
    /\ aArr \in Lists /\ aOut = NotCalled

TreeSpec == TreeStart /\ [][TreeNext]_vars

(***************************************************************************)
(* formatBytes(bytes, decimal = 2).  bytes is a whole number; the scaled   *)
(* value is the exact fraction num / den, den a power of 1024.  A string   *)
(* is modelled by its parts: the whole part, the fractional digits after   *)
(* the point (none: no point) and the unit.  The byte counts are small     *)
(* enough for the scaled value's decimal expansion to be exact in a        *)
(* double, so `${bytes}` prints exactly that expansion.                    *)
(***************************************************************************)
K == 1024           \* const k = 1024
units == <<"B", "KB", "MB", "GB", "TB", "PB", "EB", "ZB", "YB">>

\* Byte counts past MaxBytes whose scaled value is short: 1023.9990234375 KB,
\* 1 MB, 1.25 MB, 1.5 MB; and negative ones.
MoreBytes == {1048575, 1048576, 1310720, 1572864, -1, -2048}

FormatInputs ==
    [bytes : (0..MaxBytes) \cup MoreBytes, given : {TRUE}, decimal : (-1)..MaxDecimals]
        \cup [bytes : (0..MaxBytes) \cup MoreBytes, given : {FALSE}, decimal : {0}]

RECURSIVE Pow10(_)
Pow10(n) == IF n = 0 THEN 1 ELSE 10 * Pow10(n - 1)

RECURSIVE Scale(_, _, _)
\* while (bytes >= k && i < units.length - 1) { bytes /= k; i++ }
Scale(num, den, i) ==
    IF num >= K * den /\ i < Len(units) - 1
    THEN Scale(num, den * K, i + 1)
    ELSE [num |-> num, den |-> den, i |-> i]

\* Number.isInteger(bytes)
IsInteger(num, den) == num % den = 0

\* The whole part of num / den, truncated toward zero.
Trunc(num, den) == IF num >= 0 THEN num \div den ELSE -((-num) \div den)

RECURSIVE Expansion(_, _)
\* The digits after the point of rem / den, 0 <= rem < den, den a power of two.
Expansion(rem, den) ==
    IF rem = 0 THEN <<>>
    ELSE <<(rem * 10) \div den>> \o Expansion((rem * 10) % den, den)

\* `${bytes}`: Number::toString of num / den.
NumberToString(num, den) ==
    [whole |-> Trunc(num, den),
     frac |-> IF num >= 0 THEN Expansion(num % den, den) ELSE Expansion((-num) % den, den)]

RECURSIVE DigitsOf(_, _)
\* n written with exactly d digits, leading zeros kept.
DigitsOf(n, d) == IF d = 0 THEN <<>> ELSE Append(DigitsOf(n \div 10, d - 1), n % 10)

\* bytes.toFixed(dm), for num / den >= 0: the nearest multiple of 10^-dm, the
\* larger one of two equally near.
toFixed(num, den, dm) ==
    LET f == (2 * (num % den) * Pow10(dm) + den) \div (2 * den)
        carry == IF f = Pow10(dm) THEN 1 ELSE 0
    IN [whole |-> num \div den + carry,
        frac |-> DigitsOf(IF carry = 1 THEN 0 ELSE f, dm)]

\* str.endsWith(endStr), endStr being dm zeros and str ending in dm digits.
EndsWithZeros(str, dm) == \A i \in 1..dm : str.frac[Len(str.frac) + 1 - i] = 0

\* str.split('.')[0]
BeforePoint(str) == [whole |-> str.whole, frac |-> <<>>]

WithUnit(str, i) == [whole |-> str.whole, frac |-> str.frac, unit |-> units[i + 1]]

formatBytes(bytes, given, decimal) ==
    IF bytes = 0 THEN [whole |-> 0, frac |-> <<>>, unit |-> "B"]
    ELSE LET dec == IF given THEN decimal ELSE 2                 \* decimal: number = 2
             dm == IF dec # 0 /\ dec > 0 THEN dec ELSE 0         \* decimal && decimal > 0 ? decimal : 0
             s == Scale(bytes, 1, 0)
         IN IF dm = 0 THEN WithUnit(NumberToString(s.num, s.den), s.i)
            ELSE IF IsInteger(s.num, s.den) THEN WithUnit(NumberToString(s.num, s.den), s.i)
            ELSE IF EndsWithZeros(toFixed(s.num, s.den, dm), dm)
                 THEN WithUnit(BeforePoint(toFixed(s.num, s.den, dm)), s.i)
                 ELSE WithUnit(toFixed(s.num, s.den, dm), s.i)

FormatBytesCall ==
    /\ fOut = NotCalled
    /\ fOut' = formatBytes(fIn.bytes, fIn.given, fIn.decimal)
    /\ UNCHANGED <<fIn, timerVars, cloneVars, treeVars, selectVars>>

FormatNext == FormatBytesCall

FormatStart ==
    /\ TimersIdle /\ CloneInit /\ TreeIdle /\ SelectIdle
    /\ fIn \in FormatInputs /\ fOut = NotCalled

FormatSpec == FormatStart /\ [][FormatNext]_vars

(***************************************************************************)
(* getSelectedItems(data, options), with the default valueKey 'value' and  *)
(* getKey 'label'.  A string or a number is [t, v], v its text; an array   *)
(* is [t |-> "array", items |-> its entries]; [t |-> "object"] is a plain  *)
(* object, a value of none of the declared kinds.                          *)
(***************************************************************************)
Scalars == {[t |-> "string", v |-> "a"], [t |-> "string", v |-> "b"], [t |-> "number", v |-> "1"]}
Labels == {"A", "B"}
Items == [value : Scalars, label : Labels]
OptionValues ==
    Scalars
        \cup {[t |-> "array", items |-> vs] : vs \in UNION {[1..n -> Scalars] : n \in 0..MaxValues}}
        \cup {[t |-> "object"]}
SelectInputs ==
    [data : UNION {[1..n -> Items] : n \in 0..MaxData}, value : OptionValues, flag : BOOLEAN]

Undefined == [t |-> "undefined"]

\* typeof value
TypeOf(value) == IF value.t \in {"string", "number"} THEN value.t ELSE "object"

\* value instanceof Array
IsArray(value) == value.t = "array"

\* if (!['string', 'number'].includes(type) || (type === 'object' && !isArray)) throw
Rejected(value) ==
    \/ TypeOf(value) \notin {"string", "number"}
    \/ (TypeOf(value) = "object" /\ ~IsArray(value))

\* flag ? item[getKey] : item
Mapped(item, flag) == IF flag THEN [t |-> "string", v |-> item.label] ELSE [t |-> "item", item |-> item]

\* valueMap.get(v) after data.forEach(item => valueMap.set(item[valueKey], ...))
ValueMapGet(data, flag, v) ==
    IF \E i \in 1..Len(data) : data[i].value = v
    THEN Mapped(data[CHOOSE i \in 1..Len(data) :
                        /\ data[i].value = v
                        /\ \A j \in 1..Len(data) : data[j].value = v => j <= i], flag)
    ELSE Undefined

getSelectedItems(data, value, flag) ==
    IF Rejected(value) THEN [status |-> "thrown", result |-> Undefined]
    ELSE IF ~IsArray(value)
         THEN [status |-> "returned", result |-> ValueMapGet(data, flag, value)]
         ELSE [status |-> "returned",
               result |-> [t |-> "array",
                           items |-> [i \in 1..Len(value.items) |->
                                         ValueMapGet(data, flag, value.items[i])]]]

GetSelectedItemsCall ==
    /\ gOut = NotCalled
    /\ gOut' = getSelectedItems(gIn.data, gIn.value, gIn.flag)
    /\ UNCHANGED <<gIn, timerVars, cloneVars, treeVars, formatVars>>

SelectNext == GetSelectedItemsCall

SelectStart ==
    /\ TimersIdle /\ CloneInit /\ TreeIdle /\ FormatIdle
    /\ gIn \in SelectInputs /\ gOut = NotCalled

SelectSpec == SelectStart /\ [][SelectNext]_vars

(***************************************************************************)
(* C1.  For one debounce wrapper: every invocation cancels the pending     *)
(* timer and arms a new one due wait ms later; fn is never applied while   *)
(* fewer than wait ms have passed since the latest invocation; an          *)
(* invocation followed by another one within wait ms yields no application *)
(* of fn; each invocation yields at most one application, with its own     *)
(* arguments and receiver; and once the invocations stop, fn is applied    *)
(* exactly once for the last one.                                          *)
(***************************************************************************)
DebounceCallsFor(j) == {k \in 1..Len(dFnCalls) : dFnCalls[k].inv = j}

DebounceSafe ==
    /\ Cardinality(DOMAIN timers) <= 1
    /\ \A k \in 1..Len(dFnCalls) :
          LET c == dFnCalls[k] IN
          /\ c.inv \in 1..Len(dInvoked)
          /\ c.at >= dInvoked[c.inv].at + Wait
          /\ c.args = dInvoked[c.inv].args
          /\ c.context = dInvoked[c.inv].context
    /\ \A j \in 1..Len(dInvoked) :
          /\ Cardinality(DebounceCallsFor(j)) <= 1
          /\ (j < Len(dInvoked) /\ dInvoked[j + 1].at - dInvoked[j].at < Wait)
                => DebounceCallsFor(j) = {}
    /\ (Len(dInvoked) > 0 /\ DebounceCallsFor(Len(dInvoked)) = {}) =>
          LET last == dInvoked[Len(dInvoked)] IN
          /\ DOMAIN timers = {dTimer}
          /\ timers[dTimer].due = last.at + Wait
          /\ timers[dTimer].cb.args = last.args
          /\ timers[dTimer].cb.context = last.context

DebounceSettled ==
    Len(dInvoked) > 0 =>
        /\ Cardinality(DebounceCallsFor(Len(dInvoked))) = 1
        /\ timers = <<>>

\* C1: fn is applied only for the last invocation of a burst, no sooner than wait ms
\* after it and with its arguments and receiver, and a finished burst ends in exactly one application.
C1_Debounce == []DebounceSafe /\ <>[]DebounceSettled

\* Three invocations inside one wait window, then the single application of fn,
\* with the last invocation's arguments and receiver and not the first's.
C1_Witness ==
    /\ Len(dInvoked) = 3
    /\ dInvoked[3].at - dInvoked[1].at < Wait
    /\ dInvoked[3].args # dInvoked[1].args
    /\ dInvoked[3].context # dInvoked[1].context
    /\ Len(dFnCalls) = 1
    /\ dFnCalls[1].args = dInvoked[3].args
    /\ dFnCalls[1].context = dInvoked[3].context
    /\ dFnCalls[1].at >= dInvoked[3].at + Wait

(***************************************************************************)
(* C2.  For one throttle wrapper: an invocation made while no cooldown is  *)
(* pending (timer is null) applies fn in the same step with that           *)
(* invocation's arguments and receiver, exactly once, and once fn has      *)
(* returned a cooldown timer due wait ms later is armed; an invocation     *)
(* made while a cooldown is pending applies nothing, then or later; a      *)
(* pending cooldown always has its timer armed, so it ends and the next    *)
(* invocation applies fn again.  For invocations made one after the other  *)
(* (none made by fn itself), two applications of fn are at least wait ms   *)
(* apart, each made after the previous cooldown timer expired, and no      *)
(* timer outlives the cooldown it was armed for.                           *)
(***************************************************************************)
ThrottleCallsFor(i) == {k \in 1..Len(tFnCalls) : tFnCalls[k].inv = i}

ThrottleSequential == \A i \in 1..Len(tInvoked) : tInvoked[i].depth = 0

\* C2: an invocation applies fn at once exactly when no cooldown is pending, and is dropped otherwise.
C2_Throttle ==
    /\ \A i \in 1..Len(tInvoked) :
          IF tInvoked[i].cooling
          THEN ThrottleCallsFor(i) = {}
          ELSE /\ Cardinality(ThrottleCallsFor(i)) = 1
               /\ \A k \in ThrottleCallsFor(i) :
                     /\ tFnCalls[k].args = tInvoked[i].args
                     /\ tFnCalls[k].context = tInvoked[i].context
                     /\ tFnCalls[k].at = tInvoked[i].at
    /\ \A k \in 1..Len(tFnCalls) :
          /\ tFnCalls[k].inv \in 1..Len(tInvoked)
          /\ Truthy(tArmed[k]) <=> (\A d \in 1..Len(tStack) : tStack[d] # k)
    /\ Truthy(tTimer) =>
          /\ tTimer \in DOMAIN timers
          /\ timers[tTimer].due <= now + Wait
          /\ timers[tTimer].due >= tFnCalls[Len(tFnCalls)].at + Wait
    /\ ThrottleSequential =>
          /\ \A k \in 2..Len(tFnCalls) :
                /\ tFnCalls[k].at - tFnCalls[k - 1].at >= Wait
                /\ tFnCalls[k].prevExpired
          /\ DOMAIN timers \subseteq {tTimer}

\* An invocation that applies fn, one dropped during the cooldown, and one made
\* after the cooldown that applies fn again.
C2_Witness ==
    /\ Len(tInvoked) = 3
    /\ ThrottleSequential
    /\ ~tInvoked[1].cooling /\ tInvoked[2].cooling /\ ~tInvoked[3].cooling
    /\ tInvoked[2].args # tInvoked[1].args
    /\ Len(tFnCalls) = 2
    /\ tFnCalls[1].args = tInvoked[1].args
    /\ tFnCalls[2].at = tInvoked[3].at
    /\ tStack = <<>>
    /\ Truthy(tTimer)

(***************************************************************************)
(* C10.  For one throttle wrapper, fn is never applied a second time       *)
(* before the cooldown timer armed for its previous application has        *)
(* expired, re-entrant invocations made by fn itself included.             *)
(***************************************************************************)
C10_NoEarlyRepeat == \A k \in 1..Len(tFnCalls) : tFnCalls[k].prevExpired

(***************************************************************************)
(* C3.  Whichever way a copyTxt call's clipboard write fails (the          *)
(* capability missing or the call throwing and then the fallback refusing  *)
(* or throwing, or the asynchronous write rejecting), the promise the call *)
(* returned is rejected with false; it does not stay pending.              *)
(***************************************************************************)
CopyFailed(call) ==
    \/ call.clip \in {"missing", "throws"} /\ call.dom \in {"refuses", "throws"}
    \/ call.write = "rejected"

\* C3: a copyTxt call whose clipboard write failed has returned a promise rejected with false.
C3_FailureRejects ==
    \A i \in 1..Len(cCalls) : CopyFailed(cCalls[i]) => cCalls[i].promise = reject(False)

(***************************************************************************)
(* C5.  For every value v built only from nested arrays and plain mappings *)
(* over primitives, deepClone(v) is structurally equal to v, every array   *)
(* and mapping in it is newly created (none is shared with v), and         *)
(* mutating an array or mapping inside the clone leaves v as it was.       *)
(***************************************************************************)
RECURSIVE IsPlain(_, _)
IsPlain(h, v) ==
    IF v.t # "ref" THEN TRUE
    ELSE /\ IsContainer(h[v.v])
         /\ \A i \in 1..Len(CellsOf(h[v.v])) : IsPlain(h, CellsOf(h[v.v])[i])

RECURSIVE DeepEqual(_, _, _, _)
\* Value v1 on heap h1 and value v2 on heap h2 are structurally equal.
DeepEqual(h1, v1, h2, v2) ==
    IF v1.t # "ref" \/ v2.t # "ref" THEN v1 = v2
    ELSE IF ~IsContainer(h1[v1.v]) \/ ~IsContainer(h2[v2.v]) THEN v1 = v2
    ELSE /\ h1[v1.v].kind = h2[v2.v].kind
         /\ Len(h1[v1.v].elems) = Len(h2[v2.v].elems)
         /\ DOMAIN h1[v1.v].fields = DOMAIN h2[v2.v].fields
         /\ \A i \in 1..Len(h1[v1.v].elems) :
               DeepEqual(h1, h1[v1.v].elems[i], h2, h2[v2.v].elems[i])
         /\ \A k \in DOMAIN h1[v1.v].fields :
               DeepEqual(h1, h1[v1.v].fields[k], h2, h2[v2.v].fields[k])

\* C5: the clone of plain data is deeply equal to the original and shares no container with it,
\* so mutating the clone leaves the original as it was.
C5_DeepClone ==
    (hPhase # "build" /\ IsPlain(hBefore, hRoot)) =>
        /\ hPhase = "cloned" => DeepEqual(hBefore, hRoot, heap, hClone)
        /\ Reach(heap, hClone) \cap Reach(heap, hRoot) = {}
        /\ \A a \in Reach(heap, hClone) : a > Len(hBefore)
        /\ DeepEqual(hBefore, hRoot, heap, hRoot)
        /\ \A a \in Reach(hBefore, hRoot) : heap[a] = hBefore[a]

\* A mapping or array nested inside another was cloned and the clone then mutated:
\* the clone differs from v now, and v is as it was.
C5_Witness ==
    /\ hPhase = "mutated"
    /\ IsPlain(hBefore, hRoot)
    /\ Cardinality(Reach(hBefore, hRoot)) >= 2
    /\ Cardinality(Reach(heap, hClone)) >= 2
    /\ ~DeepEqual(hBefore, hRoot, heap, hClone)
    /\ DeepEqual(hBefore, hRoot, heap, hRoot)

(***************************************************************************)
(* C6, as stated.  deepClone returns by reference every value that is      *)
(* neither an array nor a plain mapping (a function, a Date, a RegExp, a   *)
(* class instance), as the argument itself and nested inside a cloned      *)
(* array or mapping.                                                       *)
(***************************************************************************)
RECURSIVE ExoticsKept(_, _, _, _)
ExoticsKept(h1, v, h2, c) ==
    IF v.t # "ref" THEN TRUE
    ELSE IF ~IsContainer(h1[v.v]) THEN c = v
    ELSE /\ c.t = "ref"
         /\ Len(CellsOf(h2[c.v])) = Len(CellsOf(h1[v.v]))
         /\ \A i \in 1..Len(CellsOf(h1[v.v])) :
               ExoticsKept(h1, CellsOf(h1[v.v])[i], h2, CellsOf(h2[c.v])[i])

\* C6, as stated: functions, Dates, RegExps and class instances in the clone are the originals.
C6_ExoticsByReference ==
    hPhase = "cloned" => ExoticsKept(hBefore, hRoot, heap, hClone)

(***************************************************************************)
(* C6, amended.  deepClone returns by reference the values whose typeof is *)
(* not 'object' (functions, like primitives) and null, as the argument     *)
(* itself and nested; a Date, a RegExp or a class instance is not returned *)
(* by reference: what is returned in its place is a newly created plain    *)
(* mapping holding the clones of its enumerable properties (none for a     *)
(* Date or a RegExp).                                                      *)
(***************************************************************************)
RECURSIVE ClonedAsCoded(_, _, _, _)
ClonedAsCoded(h1, v, h2, c) ==
    IF v.t # "ref" THEN c = v
    ELSE IF h1[v.v].kind = "function" THEN c = v
    ELSE /\ c.t = "ref"
         /\ c.v > Len(h1)
         /\ h2[c.v].kind = (IF h1[v.v].kind = "array" THEN "array" ELSE "object")
         /\ Len(h2[c.v].elems) = Len(h1[v.v].elems)
         /\ DOMAIN h2[c.v].fields = DOMAIN h1[v.v].fields
         /\ \A i \in 1..Len(CellsOf(h1[v.v])) :
               ClonedAsCoded(h1, CellsOf(h1[v.v])[i], h2, CellsOf(h2[c.v])[i])

\* C6, amended: functions in the clone are the originals; a Date, a RegExp or a class instance
\* is replaced by a new plain mapping of its cloned enumerable properties.
C6_FunctionsByReference ==
    hPhase = "cloned" => ClonedAsCoded(hBefore, hRoot, heap, hClone)

\* An array holding the function and the Date was cloned: the clone holds the
\* same function and, in the Date's place, a new empty plain mapping.
C6_Witness ==
    /\ hPhase = "cloned"
    /\ hRoot.t = "ref"
    /\ hBefore[hRoot.v] = Obj("array", <<Ref(1), Ref(2)>>, NoFields)
    /\ heap[hClone.v].elems[1] = Ref(1)
    /\ heap[hClone.v].elems[2] # Ref(2)
    /\ heap[heap[hClone.v].elems[2].v] = Obj("object", <<>>, NoFields)

(***************************************************************************)
(* C7, as stated.  For every list with pairwise distinct ids in which each *)
(* truthy pid is the id of some record, arrayToTree returns as roots       *)
(* exactly the records with a falsy pid, in input order, and the children  *)
(* of each record are exactly the records whose pid equals its id, in      *)
(* input order.                                                            *)
(***************************************************************************)
TreeDomain(arr) ==
    /\ \A i, j \in 1..Len(arr) : arr[i].id = arr[j].id => i = j
    /\ \A i \in 1..Len(arr) :
          Truthy(arr[i].pid) => \E j \in 1..Len(arr) : arr[j].id = arr[i].pid

Positions(arr) == [i \in 1..Len(arr) |-> i]

\* C7, as stated: roots are the falsy-pid records and the children of a record are the records
\* whose pid equals its id, both in input order.
C7_ChildrenByEqualPid ==
    (aOut # NotCalled /\ TreeDomain(aArr)) =>
        /\ aOut.status = "returned"
        /\ aOut.tree = SelectSeq(Positions(aArr), LAMBDA j : ~Truthy(aArr[j].pid))
        /\ \A i \in 1..Len(aArr) :
              aOut.children[i] =
                  SelectSeq(Positions(aArr), LAMBDA j : aArr[j].pid = aArr[i].id)

(***************************************************************************)
(* C7, amended.  As stated, except that the children of each record are    *)
(* exactly the records whose pid is truthy and equals its id: a record     *)
(* with a falsy pid is a root, also when some record has that falsy value  *)
(* as its id.                                                              *)
(***************************************************************************)
C7_ChildrenByTruthyPid ==
    (aOut # NotCalled /\ TreeDomain(aArr)) =>
        /\ aOut.status = "returned"
        /\ aOut.tree = SelectSeq(Positions(aArr), LAMBDA j : ~Truthy(aArr[j].pid))
        /\ \A i \in 1..Len(aArr) :
              aOut.children[i] =
                  SelectSeq(Positions(aArr),
                            LAMBDA j : Truthy(aArr[j].pid) /\ aArr[j].pid = aArr[i].id)

\* [{id:1,pid:0},{id:2,pid:1},{id:3,pid:1}] gives one root, 1, with children 2, 3.
C7_Witness ==
    /\ aArr = <<[id |-> 1, pid |-> 0], [id |-> 2, pid |-> 1], [id |-> 3, pid |-> 1]>>
    /\ aOut.status = "returned"
    /\ aOut.tree = <<1>>
    /\ aOut.children = <<<<2, 3>>, <<>>, <<>>>>

(***************************************************************************)
(* C9.  Whenever arrayToTree returns without a fault, every input record   *)
(* appears exactly once in the returned forest, as a root or as a          *)
(* descendant of a root, parent cycles and self-parents included.          *)
(***************************************************************************)
RECURSIVE Descendants(_, _)
\* The nodes reachable from the set S of nodes through children.
Descendants(out, S) ==
    LET T == S \cup UNION {{out.children[p][k] : k \in 1..Len(out.children[p])} : p \in S}
    IN IF T = S THEN S ELSE Descendants(out, T)

Forest(out) == Descendants(out, {out.tree[k] : k \in 1..Len(out.tree)})

Appearances(out, j) ==
    Cardinality({k \in 1..Len(out.tree) : out.tree[k] = j}) +
    Cardinality({pk \in Forest(out) \X (1..Len(out.children)) :
                    /\ pk[2] <= Len(out.children[pk[1]])
                    /\ out.children[pk[1]][pk[2]] = j})

\* C9: a returned forest holds every input record exactly once.
C9_EveryRecordOnce ==
    aOut.status = "returned" => \A j \in 1..Len(aArr) : Appearances(aOut, j) = 1

(***************************************************************************)
(* C8.  For every non-zero bytes and every decimals <= 0, formatBytes      *)
(* renders only the integer part of the scaled value, with no fractional   *)
(* digits, followed by the unit reached by dividing by 1024 while the      *)
(* value is >= 1024 and a larger unit remains.                             *)
(***************************************************************************)
C8_IntegerPartOnly ==
    (fOut # NotCalled /\ fIn.bytes # 0 /\ fIn.given /\ fIn.decimal <= 0) =>
        LET s == Scale(fIn.bytes, 1, 0)
        IN /\ fOut.frac = <<>>
           /\ fOut.whole = Trunc(s.num, s.den)
           /\ fOut.unit = units[s.i + 1]

(***************************************************************************)
(* C4.  For every data list and every options.value that is an array of    *)
(* strings and numbers, getSelectedItems returns, and does not throw, an   *)
(* array as long as options.value whose i-th entry is the mapped result    *)
(* for the i-th value (the record's label when flag is true, the record    *)
(* when false), undefined where the value matches no record.               *)
(***************************************************************************)
C4_ArrayLookup ==
    (gOut # NotCalled /\ gIn.value.t = "array") =>
        /\ gOut.status = "returned"
        /\ gOut.result.t = "array"
        /\ Len(gOut.result.items) = Len(gIn.value.items)
        /\ \A i \in 1..Len(gIn.value.items) :
              IF \E n \in 1..Len(gIn.data) : gIn.data[n].value = gIn.value.items[i]
              THEN \E n \in 1..Len(gIn.data) :
                      /\ gIn.data[n].value = gIn.value.items[i]
                      /\ gOut.result.items[i] =
                            IF gIn.flag THEN [t |-> "string", v |-> gIn.data[n].label]
                            ELSE [t |-> "item", item |-> gIn.data[n]]
              ELSE gOut.result.items[i] = Undefined

=============================================================================
